---- MODULE Spec2Model ----
(***************************************************************************)
(* A model of fluid/PaddleCV/human_pose_estimation/train.py:               *)
(*   - get_max_preds, the heatmap decoder (SpecDecode);                    *)
(*   - train, the start-up sequence, optimizer_setting and the epoch and   *)
(*     batch loops (Spec).                                                 *)
(* Heatmap values are float32 numbers of which only the order and the sign *)
(* are used by the code; they are modelled by small integers plus NaN.     *)
(* Indices and coordinates are integers held in float32, whose 24-bit      *)
(* significand is modelled exactly.                                        *)
(***************************************************************************)
EXTENDS Integers, Sequences, FiniteSets, TLC

VARIABLES
    batch_heatmaps,   \* get_max_preds: the argument of the latest call
    returned,         \* get_max_preds: <<>>, or <<[preds, maxvals]>> once it returned
    cli,              \* the flags as parsed from the command line
    args,             \* the argparse namespace, which train() assigns to
    pc,               \* train(): the position reached
    sizes,            \* train(): <<>>, or <<[IMAGE_SIZE, HEATMAP_SIZE]>>
    model,            \* train(): <<>>, or <<[layers, kps_num]>> once the network is built
    params,           \* train(): <<>>, or <<params>>, the dict given to optimizer_setting
    step,             \* optimizer_setting(): <<>>, or <<step>>, its local of line 55
    optimizer,        \* train(): <<>>, or <<the optimizer>>
    loads,            \* the weight loads done on the executor, in order
    num_batches,      \* batches that one pass over train_reader() yields
    pass_id,          \* the epoch loop's index
    batch_id,         \* the batch loop's index
    out_heatmaps,     \* <<>>, or <<the heatmaps fetched by the latest train_exe.run>>
    updates,          \* optimizer steps applied to the parameters so far
    existing,         \* the directories under model_save_dir when train() starts
    dirs,             \* the directories os.makedirs made
    snapshots,        \* directory -> the parameter state persisted into it
    files,            \* image file name -> what cv2.imwrite wrote last
    trace             \* the engine runs, renderings and saves so far, in order

decode_vars == <<batch_heatmaps, returned>>
train_vars == <<cli, args, pc, sizes, model, params, step, optimizer, loads, num_batches,
                pass_id, batch_id, out_heatmaps, updates, existing, dirs, snapshots, files,
                trace>>
vars == <<decode_vars, train_vars>>

----------------------------------------------------------------------------
(* Bounds of the decoder's inputs *)

\* a dense batch has at most MaxCells cells (N*K*H*W), at most MaxDim a side
MaxCells == 4
MaxDim == 3
\* ordinary heatmap values are MinVal..MaxVal
MaxVal == 1
MinVal == 0 - 2

----------------------------------------------------------------------------
(* float32 *)

\* numpy's nan as a heatmap value (any number outside MinVal..MaxVal+1)
NaN == 1000

\* significand bits of numpy.float32
Mant == 24

\* spacing of the float32 numbers around the integer n >= 0
RECURSIVE Ulp(_)
Ulp(n) == IF n < 2^Mant THEN 1 ELSE 2 * Ulp(n \div 2)

\* astype(np.float32) of an integer n >= 0: round to nearest, ties to even
ToFloat32(n) ==
    LET u == Ulp(n)
        q == n \div u
        r == n % u
    IN  IF 2 * r > u \/ (2 * r = u /\ q % 2 = 1) THEN (q + 1) * u ELSE q * u

\* np.floor of the float32 quotient a / w of two integer-valued float32
\* numbers a >= 0, w > 0.  m is the quotient's significand so far, r the
\* remainder, s the number of fraction bits in m.
RECURSIVE FloorDivBits(_, _, _, _)
FloorDivBits(m, r, s, w) ==
    IF r = 0 THEN m \div (2^s)
    ELSE IF m >= 2^(Mant - 1)
         THEN LET up == 2 * r > w \/ (2 * r = w /\ m % 2 = 1)
              IN  (IF up THEN m + 1 ELSE m) \div (2^s)
         ELSE LET b == IF 2 * r >= w THEN 1 ELSE 0
              IN  FloorDivBits(2 * m + b, 2 * r - b * w, s + 1, w)

Float32FloorDiv(a, w) ==
    IF a \div w < 2^Mant
    THEN FloorDivBits(a \div w, a % w, 0, w)
    ELSE \* the quotient is at least 2^24: it is rounded to a multiple of its ulp
         LET u == Ulp(a \div w)
             q == a \div (u * w)
             r == a % (u * w)
         IN  IF 2 * r > u * w \/ (2 * r = u * w /\ q % 2 = 1)
             THEN (q + 1) * u ELSE q * u

\* the float32 remainder a % w (exact for a >= 0, w > 0)
Float32Mod(a, w) == a % w

----------------------------------------------------------------------------
(* Heatmap batches.  A batch is [shape, fill, pts]: the cells listed in    *)
(* pts hold pts[c], every other cell holds fill.  A dense batch lists all  *)
(* its cells.                                                              *)

Values == (MinVal .. MaxVal) \cup {NaN}

Cells(shape) ==
    (0 .. shape[1] - 1) \X (0 .. shape[2] - 1) \X (0 .. shape[3] - 1) \X (0 .. shape[4] - 1)

SmallShapes ==
    {s \in (1 .. MaxDim) \X (1 .. MaxDim) \X (1 .. MaxDim) \X (1 .. MaxDim) :
        s[1] * s[2] * s[3] * s[4] <= MaxCells}

\* shapes whose flat indices do not all fit the float32 significand
LargeShapes ==
    { <<1, 1, 2^(Mant - 2) + 1, 4>>,
      <<1, 1, 1, 2^Mant + 1>> }

\* the cells of a large map that are listed: the first one and three near the end
ProbeCells(shape) ==
    LET W == shape[4]
        L == shape[3] * W
    IN  {<<0, 0, i \div W, i % W>> : i \in {0, L - 4, L - 3, L - 1}}

DenseBatches ==
    UNION {{[shape |-> s, fill |-> 0, pts |-> p] : p \in [Cells(s) -> Values]} :
            s \in SmallShapes}

LargeBatches ==
    UNION {{[shape |-> s, fill |-> f, pts |-> p] :
                f \in {MinVal, 0}, p \in [ProbeCells(s) -> Values]} :
            s \in LargeShapes}

Batches == DenseBatches \cup LargeBatches

----------------------------------------------------------------------------
(* numpy on a batch *)

\* batch_heatmaps.reshape((batch_size, num_joints, -1)): row-major, cell
\* (y, x) of a map becomes flat index y * W + x
Reshape(b) ==
    LET W == b.shape[4]
        flat == {<<c[1], c[2], c[3] * W + c[4]>> : c \in DOMAIN b.pts}
    IN  [shape |-> <<b.shape[1], b.shape[2], b.shape[3] * W>>,
         fill  |-> b.fill,
         pts   |-> [f \in flat |-> b.pts[<<f[1], f[2], f[3] \div W, f[3] % W>>]]]

\* the flat indices of map (n, k) that are listed
Listed(r, n, k) == {c[3] : c \in {d \in DOMAIN r.pts : d[1] = n /\ d[2] = k}}

FlatAt(r, n, k, i) == IF <<n, k, i>> \in DOMAIN r.pts THEN r.pts[<<n, k, i>>] ELSE r.fill

Min(S) == CHOOSE i \in S : \A j \in S : i <= j
Max(S) == CHOOSE i \in S : \A j \in S : i >= j

\* the listed indices of map (n, k) and the first index that holds fill:
\* the first occurrence of every value of the map is among them
Firsts(r, n, k) ==
    LET ls   == Listed(r, n, k)
        gaps == {i \in 0 .. Cardinality(ls) : i \notin ls /\ i < r.shape[3]}
    IN  ls \cup (IF gaps = {} THEN {} ELSE {Min(gaps)})

\* np.amax(heatmaps_reshaped, 2)[n][k]: nan if the map holds one
AMax(r, n, k) ==
    LET vs == {FlatAt(r, n, k, i) : i \in Firsts(r, n, k)}
    IN  IF NaN \in vs THEN NaN ELSE Max(vs)

\* np.argmax(heatmaps_reshaped, 2)[n][k]: the first index of the maximum
\* (of the first nan if the map holds one)
ArgMax(r, n, k) ==
    Min({i \in Firsts(r, n, k) : FlatAt(r, n, k, i) = AMax(r, n, k)})

\* np.greater(v, 0.0): False on nan
Greater0(v) == v # NaN /\ v > 0

----------------------------------------------------------------------------
(* get_max_preds *)

\* a slip: the column decoded with the row's formula
DecodeX_div(p, width) == Float32FloorDiv(p, ToFloat32(width))

\* preds[:, :, 0] = (preds[:, :, 0]) % width
DecodeX(p, width) == Float32Mod(p, ToFloat32(width))

\* preds[:, :, 1] = np.floor((preds[:, :, 1]) / width)
DecodeY(p, width) == Float32FloorDiv(p, ToFloat32(width))

\* a slip: np.greater_equal in place of np.greater
PredMask_ge(maxval) == IF maxval # NaN /\ maxval >= 0 THEN 1 ELSE 0

\* pred_mask = np.tile(np.greater(maxvals, 0.0), (1, 1, 2)).astype(np.float32)
PredMask(maxval) == IF Greater0(maxval) THEN 1 ELSE 0

get_max_preds(b) ==
    LET batch_size == b.shape[1]
        num_joints == b.shape[2]
        width      == b.shape[4]
        heatmaps_reshaped == Reshape(b)
        joints     == (0 .. batch_size - 1) \X (0 .. num_joints - 1)
        idx        == [j \in joints |-> ArgMax(heatmaps_reshaped, j[1], j[2])]
        amax       == [j \in joints |-> AMax(heatmaps_reshaped, j[1], j[2])]
        \* preds = np.tile(idx, (1, 1, 2)).astype(np.float32)
        tiled      == [j \in joints |-> <<ToFloat32(idx[j]), ToFloat32(idx[j])>>]
        decoded    == [j \in joints |->
                          <<DecodeX(tiled[j][1], width), DecodeY(tiled[j][2], width)>>]
    IN  [preds   |-> [j \in joints |->
                         <<decoded[j][1] * PredMask(amax[j]),
                           decoded[j][2] * PredMask(amax[j])>>],
         maxvals |-> amax]

----------------------------------------------------------------------------
(* The command line (lines 30-45).  lr is in millionths.  use_gpu and      *)
(* with_mem_opt only select the device and the memory optimisation, and    *)
(* are left out.                                                           *)

\* the largest --num_epochs
MaxEpochs == 2
\* the most batches one pass over the reader yields
MaxBatches == 11

None == <<>>
Some(v) == <<v>>

Flags ==
    [batch_size       : {32, 64},
     dataset          : {"coco", "mpii", "lsp"},
     num_epochs       : 0 .. MaxEpochs,
     total_images     : {144406, 500},
     kp_dim           : {16, 5},
     model_save_dir   : {"output"},
     pretrained_model : {None, Some("weights")},
     checkpoint       : {None, Some("ckpt")},
     lr               : {1000},
     lr_strategy      : {"piecewise_decay", "momentum"}]

BatchCounts == {0, 1, MaxBatches}

\* a rational number n / d
Rat(n, d) == <<n, d>>

----------------------------------------------------------------------------
(* optimizer_setting *)

\* a slip: the + 1 forgotten
StepsPerEpoch_floor(total_images, batch_size) == total_images \div batch_size

\* step = int(total_images / batch_size + 1), for batch_size > 0
StepsPerEpoch(total_images, batch_size) == (total_images \div batch_size) + 1

\* ls['epochs'] = [91, 121]
DecayEpochs == <<91, 121>>

\* lr = [base_lr * (lr_drop_ratio**i) for i in range(len(bd) + 1)], lr_drop_ratio = 0.1
LrValues(base_lr, bd) == [i \in 1 .. Len(bd) + 1 |-> Rat(base_lr, 10^(i - 1))]

\* bd = [step * e for e in ls["epochs"]]
Boundaries(st, epochs) == [i \in 1 .. Len(epochs) |-> st * epochs[i]]

optimizer_setting(a, p) ==
    LET ls == p.learning_strategy
    IN  IF ls.name = "piecewise_decay"
        THEN LET st == StepsPerEpoch(p.total_images, ls.batch_size)
                 bd == Boundaries(st, DecayEpochs)
             IN  [step      |-> Some(st),
                  \* ls['epochs'] = [91, 121] writes into the caller's dict
                  params    |-> [p EXCEPT !.learning_strategy =
                                    [batch_size |-> ls.batch_size, name |-> ls.name,
                                     epochs |-> DecayEpochs]],
                  optimizer |-> [kind       |-> "AdamOptimizer",
                                 boundaries |-> bd,
                                 values     |-> LrValues(p.lr, bd)]]
        ELSE [step      |-> None,
              params    |-> p,
              optimizer |-> [kind           |-> "Momentum",
                             learning_rate  |-> Rat(p.lr, 1),
                             momentum       |-> Rat(9, 10),
                             regularization |-> Rat(5, 10000)]]

----------------------------------------------------------------------------
(* train: start-up *)

\* a slip: the two datasets' image sizes exchanged
DatasetConfig_swapped(a) ==
    IF a.dataset = "coco"
    THEN [supported    |-> TRUE,
          IMAGE_SIZE   |-> <<384, 384>>,
          HEATMAP_SIZE |-> <<96, 96>>,
          args         |-> [a EXCEPT !.kp_dim = 17, !.total_images = 144406]]
    ELSE IF a.dataset = "mpii"
    THEN [supported    |-> TRUE,
          IMAGE_SIZE   |-> <<288, 384>>,
          HEATMAP_SIZE |-> <<72, 96>>,
          args         |-> [a EXCEPT !.kp_dim = 16, !.total_images = 22246]]
    ELSE [supported    |-> FALSE,
          IMAGE_SIZE   |-> <<>>,
          HEATMAP_SIZE |-> <<>>,
          args         |-> a]

\* a slip: an unknown dataset falls back to the default, mpii
DatasetConfig_fallback(a) ==
    IF a.dataset = "coco"
    THEN [supported    |-> TRUE,
          IMAGE_SIZE   |-> <<288, 384>>,
          HEATMAP_SIZE |-> <<72, 96>>,
          args         |-> [a EXCEPT !.kp_dim = 17, !.total_images = 144406]]
    ELSE [supported    |-> TRUE,
          IMAGE_SIZE   |-> <<384, 384>>,
          HEATMAP_SIZE |-> <<96, 96>>,
          args         |-> [a EXCEPT !.kp_dim = 16, !.total_images = 22246]]

\* lines 79-92: the dataset's sizes, and the two flags it overwrites
DatasetConfig(a) ==
    IF a.dataset = "coco"
    THEN [supported    |-> TRUE,
          IMAGE_SIZE   |-> <<288, 384>>,
          HEATMAP_SIZE |-> <<72, 96>>,
          args         |-> [a EXCEPT !.kp_dim = 17, !.total_images = 144406]]
    ELSE IF a.dataset = "mpii"
    THEN [supported    |-> TRUE,
          IMAGE_SIZE   |-> <<384, 384>>,
          HEATMAP_SIZE |-> <<96, 96>>,
          args         |-> [a EXCEPT !.kp_dim = 16, !.total_images = 22246]]
    ELSE [supported    |-> FALSE,
          IMAGE_SIZE   |-> <<>>,
          HEATMAP_SIZE |-> <<>>,
          args         |-> a]

\* raise ValueError('The dataset {} is not supported yet.')
SelectDataset ==
    /\ pc = "start"
    /\ LET c == DatasetConfig(args)
       IN  IF c.supported
           THEN /\ args' = c.args
                /\ sizes' = Some([IMAGE_SIZE |-> c.IMAGE_SIZE, HEATMAP_SIZE |-> c.HEATMAP_SIZE])
                /\ pc' = "build"
           ELSE /\ pc' = "ValueError"
                /\ UNCHANGED <<args, sizes>>
    /\ UNCHANGED <<decode_vars, cli, model, params, step, optimizer, loads, num_batches,
                   pass_id, batch_id, out_heatmaps, updates, existing, dirs, snapshots,
                   files, trace>>

\* lines 94-105: the data layers, pose_resnet.ResNet(layers=50, kps_num=args.kp_dim)
BuildModel ==
    /\ pc = "build"
    /\ model' = Some([layers       |-> 50,
                      kps_num      |-> args.kp_dim,
                      image_shape  |-> <<3, sizes[1].IMAGE_SIZE[2], sizes[1].IMAGE_SIZE[1]>>,
                      target_shape |-> <<args.kp_dim, sizes[1].HEATMAP_SIZE[2],
                                         sizes[1].HEATMAP_SIZE[1]>>])
    /\ pc' = "optimizer"
    /\ UNCHANGED <<decode_vars, cli, args, sizes, params, step, optimizer, loads,
                   num_batches, pass_id, batch_id, out_heatmaps, updates, existing, dirs,
                   snapshots, files, trace>>

\* lines 108-114
MakeParams(a) ==
    [total_images      |-> a.total_images,
     lr                |-> a.lr,
     num_epochs        |-> a.num_epochs,
     learning_strategy |-> [batch_size |-> a.batch_size, name |-> a.lr_strategy]]

\* lines 108-118: params, optimizer_setting, optimizer.minimize(loss)
InitOptimizer ==
    /\ pc = "optimizer"
    /\ LET p == MakeParams(args)
           r == optimizer_setting(args, p)
       IN  /\ params' = Some(r.params)
           /\ step' = r.step
           /\ optimizer' = Some(r.optimizer)
    /\ pc' = "startup"
    /\ UNCHANGED <<decode_vars, cli, args, sizes, model, loads, num_batches, pass_id,
                   batch_id, out_heatmaps, updates, existing, dirs, snapshots, files,
                   trace>>

\* lines 120-126: memory_optimize, the Executor, exe.run(default_startup_program())
Startup ==
    /\ pc = "startup"
    /\ loads' = Append(loads, [op |-> "startup_program", path |-> ""])
    /\ pc' = "pretrained"
    /\ UNCHANGED <<decode_vars, cli, args, sizes, model, params, step, optimizer,
                   num_batches, pass_id, batch_id, out_heatmaps, updates, existing, dirs,
                   snapshots, files, trace>>

\* a slip: the flag used as given
PretrainedPath_flag(a) == a.pretrained_model

\* args.pretrained_model = './pretrained/resnet_50/115'
PretrainedPath(a) == Some("./pretrained/resnet_50/115")

\* Python's truth value of an optional string
Truthy(v) == v # None /\ v # Some("")

\* lines 128-133
LoadPretrained ==
    /\ pc = "pretrained"
    /\ args' = [args EXCEPT !.pretrained_model = PretrainedPath(args)]
    /\ loads' = IF Truthy(args'.pretrained_model)
                THEN Append(loads, [op |-> "load_vars", path |-> args'.pretrained_model[1]])
                ELSE loads
    /\ pc' = "checkpoint"
    /\ UNCHANGED <<decode_vars, cli, sizes, model, params, step, optimizer, num_batches,
                   pass_id, batch_id, out_heatmaps, updates, existing, dirs, snapshots,
                   files, trace>>

\* lines 135-136
LoadCheckpoint ==
    /\ pc = "checkpoint"
    /\ loads' = IF args.checkpoint # None
                THEN Append(loads, [op |-> "load_persistables", path |-> args.checkpoint[1]])
                ELSE loads
    /\ pc' = "reader"
    /\ UNCHANGED <<decode_vars, cli, args, sizes, model, params, step, optimizer,
                   num_batches, pass_id, batch_id, out_heatmaps, updates, existing, dirs,
                   snapshots, files, trace>>

----------------------------------------------------------------------------
(* train: the epoch and batch loops *)

\* the heatmaps train_exe.run may fetch (small stand-ins for [N, kp_dim, H, W])
EngineHeatmaps ==
    {b \in DenseBatches :
        /\ b.shape = <<1, 1, 1, 2>>
        /\ b.pts[<<0, 0, 0, 0>>] = 0
        /\ b.pts[<<0, 0, 0, 1>>] \in {0, 1}}

\* lines 139-146: the reader, the feeder, the ParallelExecutor; range() starts at 0
MakeReader ==
    /\ pc = "reader"
    /\ pass_id' = 0
    /\ pc' = "for_pass"
    /\ UNCHANGED <<decode_vars, cli, args, sizes, model, params, step, optimizer, loads,
                   num_batches, batch_id, out_heatmaps, updates, existing, dirs, snapshots,
                   files, trace>>

\* for pass_id in range(params["num_epochs"]); enumerate() starts at 0
ForPass ==
    /\ pc = "for_pass"
    /\ IF pass_id < params[1].num_epochs
       THEN /\ batch_id' = 0
            /\ pc' = "for_batch"
       ELSE /\ pc' = "done"
            /\ UNCHANGED batch_id
    /\ UNCHANGED <<decode_vars, cli, args, sizes, model, params, step, optimizer, loads,
                   num_batches, pass_id, out_heatmaps, updates, existing, dirs, snapshots,
                   files, trace>>

\* for batch_id, data in enumerate(train_reader())
ForBatch ==
    /\ pc = "for_batch"
    /\ pc' = IF batch_id < num_batches THEN "run" ELSE "save"
    /\ UNCHANGED <<decode_vars, cli, args, sizes, model, params, step, optimizer, loads,
                   num_batches, pass_id, batch_id, out_heatmaps, updates, existing, dirs,
                   snapshots, files, trace>>

\* lines 148-157: train_exe.run returns; the images of batch (pass_id, batch_id)
\* and the heatmaps computed for them are fetched
RunBatch ==
    /\ pc = "run"
    /\ \E h \in EngineHeatmaps :
          out_heatmaps' = Some([input_image |-> <<pass_id, batch_id>>, out_heatmaps |-> h])
    /\ updates' = updates + 1
    /\ trace' = Append(trace, [ev |-> "run", pass_id |-> pass_id, batch_id |-> batch_id])
    /\ pc' = "visualize"
    /\ UNCHANGED <<decode_vars, cli, args, sizes, model, params, step, optimizer, loads,
                   num_batches, pass_id, batch_id, existing, dirs, snapshots, files>>

\* train_exe.run raises: nothing catches it
RunBatchRaises ==
    /\ pc = "run"
    /\ pc' = "crashed"
    /\ UNCHANGED <<decode_vars, cli, args, sizes, model, params, step, optimizer, loads,
                   num_batches, pass_id, batch_id, out_heatmaps, updates, existing, dirs,
                   snapshots, files, trace>>

\* a slip: every 10th batch counted from one
ShouldVisualize_fromOne(b) == (b + 1) % 10 = 0

\* if batch_id % 10 == 0
ShouldVisualize(b) == b % 10 = 0

\* file_name='visualization@train.jpg'
VisualizationFile == "visualization@train.jpg"

\* lines 168-221: the grid image, as its shape, the batch images in its first
\* column and the keypoints marked in it
save_batch_heatmaps(batch_image, heatmaps, decoded) ==
    [shape  |-> <<heatmaps.shape[1] * heatmaps.shape[3],
                  (heatmaps.shape[2] + 1) * heatmaps.shape[4], 3>>,
     images |-> batch_image,
     marks  |-> decoded.preds]

\* lines 159-160
Visualize ==
    /\ pc = "visualize"
    /\ IF ShouldVisualize(batch_id)
       THEN /\ batch_heatmaps' = out_heatmaps[1].out_heatmaps
            /\ returned' = Some(get_max_preds(batch_heatmaps'))
            /\ files' = (VisualizationFile :>
                            save_batch_heatmaps(out_heatmaps[1].input_image,
                                                batch_heatmaps', returned'[1]))
                        @@ files
            /\ trace' = Append(trace, [ev |-> "viz", pass_id |-> pass_id,
                                       batch_id |-> batch_id])
       ELSE UNCHANGED <<decode_vars, files, trace>>
    /\ batch_id' = batch_id + 1
    /\ pc' = "for_batch"
    /\ UNCHANGED <<cli, args, sizes, model, params, step, optimizer, loads, num_batches,
                   pass_id, out_heatmaps, updates, existing, dirs, snapshots>>

\* os.path.join(a, b) for a relative b and an a that does not end in '/'
PathJoin(a, b) == a \o "/" \o b

\* a slip: the epoch left out of the path
ModelPath_noEpoch(a, e) == a.model_save_dir \o "/" \o "simplebase-" \o a.dataset

\* lines 162-163
ModelPath(a, e) ==
    PathJoin(a.model_save_dir \o "/" \o "simplebase-" \o a.dataset, ToString(e))

\* lines 162-166: makedirs unless the directory exists, save_persistables
SavePersistables ==
    /\ pc = "save"
    /\ LET model_path == ModelPath(args, pass_id)
       IN  /\ dirs' = IF model_path \in existing \cup dirs
                       THEN dirs ELSE dirs \cup {model_path}
           /\ snapshots' = (model_path :> [updates |-> updates]) @@ snapshots
           /\ trace' = Append(trace, [ev |-> "save", pass_id |-> pass_id,
                                      path |-> model_path])
    /\ pass_id' = pass_id + 1
    /\ pc' = "for_pass"
    /\ UNCHANGED <<decode_vars, cli, args, sizes, model, params, step, optimizer, loads,
                   num_batches, batch_id, out_heatmaps, updates, existing, files>>

----------------------------------------------------------------------------
(* Spec: one run of train(args) *)

Init ==
    /\ cli \in Flags
    /\ args = cli
    /\ num_batches \in BatchCounts
    /\ pc = "start"
    /\ sizes = None /\ model = None /\ params = None /\ step = None /\ optimizer = None
    /\ loads = <<>>
    /\ pass_id = 0 /\ batch_id = 0
    /\ out_heatmaps = None
    /\ updates = 0
    /\ existing \in {{}, {ModelPath(cli, 0)}}
    /\ dirs = {} /\ snapshots = <<>> /\ files = <<>>
    /\ trace = <<>>
    /\ batch_heatmaps = None /\ returned = None

Next ==
    \/ SelectDataset
    \/ BuildModel
    \/ InitOptimizer
    \/ Startup
    \/ LoadPretrained
    \/ LoadCheckpoint
    \/ MakeReader
    \/ ForPass
    \/ ForBatch
    \/ RunBatch
    \/ RunBatchRaises
    \/ Visualize
    \/ SavePersistables

Spec == Init /\ [][Next]_vars

----------------------------------------------------------------------------
(* SpecDecode: get_max_preds applied to every batch of the bounds *)

\* train() is not running
TrainIdle ==
    /\ cli = None /\ args = None /\ num_batches = 0
    /\ pc = "idle"
    /\ sizes = None /\ model = None /\ params = None /\ step = None /\ optimizer = None
    /\ loads = <<>>
    /\ pass_id = 0 /\ batch_id = 0
    /\ out_heatmaps = None
    /\ updates = 0
    /\ existing = {}
    /\ dirs = {} /\ snapshots = <<>> /\ files = <<>>
    /\ trace = <<>>

InitDecode ==
    /\ batch_heatmaps \in Batches
    /\ returned = <<>>
    /\ TrainIdle

CallGetMaxPreds ==
    /\ returned = <<>>
    /\ pc = "idle"
    /\ returned' = <<get_max_preds(batch_heatmaps)>>
    /\ UNCHANGED <<batch_heatmaps, train_vars>>

NextDecode == CallGetMaxPreds

SpecDecode == InitDecode /\ [][NextDecode]_vars

----------------------------------------------------------------------------
(* The decoder's claims, stated on the 4-dimensional batch *)

Joints(b) == (0 .. b.shape[1] - 1) \X (0 .. b.shape[2] - 1)

\* the listed cells of map (n, k), and whether other cells (holding fill) exist
MapCells(b, j) == {c \in DOMAIN b.pts : c[1] = j[1] /\ c[2] = j[2]}
HasFill(b, j) == Cardinality(MapCells(b, j)) < b.shape[3] * b.shape[4]

MapValues(b, j) ==
    {b.pts[c] : c \in MapCells(b, j)} \cup (IF HasFill(b, j) THEN {b.fill} ELSE {})

\* the map holds no nan, so that it has a maximum
Ordered(b, j) == NaN \notin MapValues(b, j)
MapMax(b, j) == Max(MapValues(b, j))

\* listed cell c holds the single strict maximum of its map
StrictMaxAt(b, c) ==
    LET j == <<c[1], c[2]>>
    IN  /\ Ordered(b, j)
        /\ \A d \in MapCells(b, j) \ {c} : b.pts[d] < b.pts[c]
        /\ HasFill(b, j) => b.fill < b.pts[c]

FlatIndex(b, c) == c[3] * b.shape[4] + c[4]

\* the cells <<y, x>> of map j that hold its maximum: the listed ones and,
\* when fill is the maximum, the first cell that holds fill
LexMin(S) == CHOOSE c \in S : \A d \in S : c[1] < d[1] \/ (c[1] = d[1] /\ c[2] <= d[2])

FirstFillCell(b, j) ==
    LET W    == b.shape[4]
        ls   == {<<c[3], c[4]>> : c \in MapCells(b, j)}
        head == {<<i \div W, i % W>> : i \in 0 .. Cardinality(ls)}
    IN  LexMin(head \ ls)

MaxCells2D(b, j) ==
    {<<c[3], c[4]>> : c \in {d \in MapCells(b, j) : b.pts[d] = MapMax(b, j)}}
    \cup (IF HasFill(b, j) /\ b.fill = MapMax(b, j) THEN {FirstFillCell(b, j)} ELSE {})

\* the maximum occurs at two positions or more
Tied(b, j) ==
    \/ Cardinality(MaxCells2D(b, j)) >= 2
    \/ HasFill(b, j) /\ b.fill = MapMax(b, j)
          /\ b.shape[3] * b.shape[4] - Cardinality(MapCells(b, j)) >= 2

FirstMaxCell(b, j) == LexMin(MaxCells2D(b, j))

Preds(j) == returned[1].preds[j]
Conf(j)  == returned[1].maxvals[j]

\* C1, as claimed: every map with a single strict maximum at column x, row y
\* decodes to exactly (x, y) with the maximum as confidence, also when the
\* maximum is zero or negative.
C1_StrictMaxDecoded ==
    returned # <<>> =>
        \A c \in DOMAIN batch_heatmaps.pts :
            StrictMaxAt(batch_heatmaps, c) =>
                /\ Preds(<<c[1], c[2]>>) = <<c[4], c[3]>>
                /\ Conf(<<c[1], c[2]>>) = batch_heatmaps.pts[c]

\* C1, amended: every map with a single strict maximum at column x, row y has
\* the maximum as confidence; the coordinate is exactly (x, y) when the
\* maximum is > 0 and its flat index y*W + x is below 2^24, and (0, 0) when
\* the maximum is <= 0.
C1_PositiveStrictMaxDecoded ==
    returned # <<>> =>
        \A c \in DOMAIN batch_heatmaps.pts :
            StrictMaxAt(batch_heatmaps, c) =>
                /\ Conf(<<c[1], c[2]>>) = batch_heatmaps.pts[c]
                /\ (batch_heatmaps.pts[c] > 0 /\ FlatIndex(batch_heatmaps, c) < 2^Mant)
                       => Preds(<<c[1], c[2]>>) = <<c[4], c[3]>>
                /\ batch_heatmaps.pts[c] <= 0 => Preds(<<c[1], c[2]>>) = <<0, 0>>

\* a positive strict maximum away from row 0 and column 0 was decoded
C1_Witness ==
    /\ returned # <<>>
    /\ \E c \in DOMAIN batch_heatmaps.pts :
          /\ StrictMaxAt(batch_heatmaps, c)
          /\ batch_heatmaps.pts[c] > 0
          /\ c[3] > 0 /\ c[4] > 0
          /\ Preds(<<c[1], c[2]>>) = <<c[4], c[3]>>

\* the coordinate of joint j before the mask is applied
Unmasked(b, j) ==
    LET i == ToFloat32(ArgMax(Reshape(b), j[1], j[2]))
    IN  <<DecodeX(i, b.shape[4]), DecodeY(i, b.shape[4])>>

AllZero(b) == ~HasFill(b, <<0, 0>>) /\ \A c \in DOMAIN b.pts : b.pts[c] = 0

\* C2: a joint whose maximum is <= 0 gets coordinate (0, 0) and the unmodified
\* maximum as confidence; in an all-zero batch every joint has confidence 0
\* and coordinate (0, 0); a joint whose maximum is > 0 is never masked.
C2_MaskedIffNotPositive ==
    returned # <<>> =>
        /\ \A j \in Joints(batch_heatmaps) :
              Ordered(batch_heatmaps, j) =>
                 /\ Conf(j) = MapMax(batch_heatmaps, j)
                 /\ MapMax(batch_heatmaps, j) <= 0 => Preds(j) = <<0, 0>>
                 /\ MapMax(batch_heatmaps, j) > 0 => Preds(j) = Unmasked(batch_heatmaps, j)
        /\ AllZero(batch_heatmaps) =>
              \A j \in Joints(batch_heatmaps) : Conf(j) = 0 /\ Preds(j) = <<0, 0>>

\* a maximum of exactly 0 away from the origin was masked, and in the same
\* batch a positive maximum away from the origin was not
C2_Witness ==
    /\ returned # <<>>
    /\ \E c, d \in DOMAIN batch_heatmaps.pts :
          /\ StrictMaxAt(batch_heatmaps, c) /\ batch_heatmaps.pts[c] = 0
          /\ c[4] > 0
          /\ Preds(<<c[1], c[2]>>) = <<0, 0>> /\ Conf(<<c[1], c[2]>>) = 0
          /\ StrictMaxAt(batch_heatmaps, d) /\ batch_heatmaps.pts[d] > 0
          /\ d[4] > 0
          /\ Preds(<<d[1], d[2]>>) = <<d[4], d[3]>>

\* C3: for any shape [N,K,H,W] with H, W >= 1 and any values, every returned
\* coordinate (x, y) satisfies 0 <= x < W and 0 <= y < H.
C3_CoordinatesInRange ==
    returned # <<>> =>
        \A j \in Joints(batch_heatmaps) :
            /\ 0 <= Preds(j)[1] /\ Preds(j)[1] < batch_heatmaps.shape[4]
            /\ 0 <= Preds(j)[2] /\ Preds(j)[2] < batch_heatmaps.shape[3]

\* C9: when the maximum of a map occurs at several positions, the decoded
\* coordinate is that of the first one in row-major order (smallest y, then
\* smallest x), or (0, 0) when the maximum is <= 0.
C9_TiesFirstOccurrence ==
    returned # <<>> =>
        \A j \in Joints(batch_heatmaps) :
            (Ordered(batch_heatmaps, j) /\ Tied(batch_heatmaps, j)) =>
                Preds(j) = IF MapMax(batch_heatmaps, j) > 0
                           THEN <<FirstMaxCell(batch_heatmaps, j)[2],
                                  FirstMaxCell(batch_heatmaps, j)[1]>>
                           ELSE <<0, 0>>

----------------------------------------------------------------------------
(* The claims about train() and optimizer_setting() *)

Piecewise == optimizer # None /\ optimizer[1].kind = "AdamOptimizer"

ClaimedCase ==
    /\ Piecewise
    /\ params[1].total_images = 144406
    /\ params[1].learning_strategy.batch_size = 32

\* C4, as claimed: with total_images=144406 and batch_size=32 piecewise_decay
\* computes step=4514 and boundaries=[410774, 546194], and three
\* learning-rate values [lr, lr*0.1, lr*0.01].
C4_ScheduleAsClaimed ==
    ClaimedCase =>
        /\ step = Some(4514)
        /\ optimizer[1].boundaries = <<410774, 546194>>
        /\ optimizer[1].values = <<Rat(cli.lr, 1), Rat(cli.lr, 10), Rat(cli.lr, 100)>>

\* C4, amended: with total_images=144406 and batch_size=32 piecewise_decay
\* computes step=4513 (floor(total_images/batch_size)+1) and
\* boundaries=[410683, 546073] (step times 91 and 121), and three
\* learning-rate values [lr, lr*0.1, lr*0.01], one more than the boundaries.
C4_Schedule ==
    ClaimedCase =>
        /\ step = Some(4513)
        /\ optimizer[1].boundaries = <<410683, 546073>>
        /\ optimizer[1].values = <<Rat(cli.lr, 1), Rat(cli.lr, 10), Rat(cli.lr, 100)>>
        /\ Len(optimizer[1].values) = Len(optimizer[1].boundaries) + 1

C4_Witness ==
    /\ ClaimedCase
    /\ pc = "done"

Supported == {"coco", "mpii"}

\* C5: 'coco' resolves kp_dim to 17 and the image size to [288,384], 'mpii'
\* to 16 and [384,384]; any other dataset raises ValueError.
C5_DatasetResolution ==
    pc # "start" =>
        /\ cli.dataset = "coco" =>
              /\ pc # "ValueError"
              /\ args.kp_dim = 17
              /\ sizes = Some([IMAGE_SIZE |-> <<288, 384>>, HEATMAP_SIZE |-> <<72, 96>>])
              /\ model # None => model[1].kps_num = 17
        /\ cli.dataset = "mpii" =>
              /\ pc # "ValueError"
              /\ args.kp_dim = 16
              /\ sizes = Some([IMAGE_SIZE |-> <<384, 384>>, HEATMAP_SIZE |-> <<96, 96>>])
              /\ model # None => model[1].kps_num = 16
        /\ cli.dataset \notin Supported => pc = "ValueError"

\* the network was built for coco though --kp_dim said otherwise
C5_Witness ==
    /\ cli.dataset = "coco"
    /\ cli.kp_dim # 17
    /\ model # None /\ model[1].kps_num = 17
    /\ sizes[1].IMAGE_SIZE = <<288, 384>>

\* C6: with an unsupported dataset the ValueError is raised before any
\* optimizer is constructed and start-up ends there: no model is built, no
\* weights are loaded, no batch is run, no directory or file is written.
C6_ErrorBeforeAnything ==
    /\ cli.dataset \notin Supported =>
          /\ pc \in {"start", "ValueError"}
          /\ sizes = None /\ model = None /\ params = None /\ optimizer = None
          /\ loads = <<>> /\ updates = 0 /\ trace = <<>>
          /\ dirs = {} /\ snapshots = <<>> /\ files = <<>>
    /\ pc = "ValueError" => (optimizer = None /\ ~ENABLED Next)

C6_Witness ==
    /\ pc = "ValueError"
    /\ cli.dataset = "lsp"

Events(kind) == {i \in 1 .. Len(trace) : trace[i].ev = kind}

ExpectedPath(e) ==
    cli.model_save_dir \o "/simplebase-" \o cli.dataset \o "/" \o ToString(e)

\* C7: the epoch index starts at 0 (also after a checkpoint load) and advances
\* by one; epoch e is persisted exactly once, after every batch of epoch e and
\* before any batch of epoch e+1, to {model_save_dir}/simplebase-{dataset}/{e};
\* the loop ends after num_epochs epochs with exactly the snapshots
\* 0..num_epochs-1 written (none when num_epochs = 0).
C7_EpochSnapshots ==
    /\ \A i \in Events("run") : trace[i].pass_id \in 0 .. cli.num_epochs - 1
    /\ trace # <<>> => trace[1].pass_id = 0
    /\ \A i \in Events("save") :
          LET e == trace[i].pass_id
          IN  /\ e = Cardinality({k \in Events("save") : k < i})
              /\ trace[i].path = ExpectedPath(e)
              /\ {trace[k].batch_id : k \in {r \in Events("run") :
                                                r < i /\ trace[r].pass_id = e}}
                    = 0 .. num_batches - 1
              /\ \A r \in Events("run") : (r < i) = (trace[r].pass_id <= e)
    /\ dirs = {trace[i].path : i \in Events("save")} \ existing
    /\ DOMAIN snapshots = {trace[i].path : i \in Events("save")}
    /\ pc \in {"for_batch", "run", "visualize", "save"} =>
          pass_id = Cardinality(Events("save")) /\ pass_id < cli.num_epochs
    /\ pc = "done" =>
          /\ Cardinality(Events("save")) = cli.num_epochs
          /\ DOMAIN snapshots = {ExpectedPath(e) : e \in 0 .. cli.num_epochs - 1}
          /\ DOMAIN snapshots \subseteq existing \cup dirs
    /\ pc \notin {"done", "ValueError", "crashed"} => ENABLED Next

\* two epochs of several batches ran after a checkpoint load, and both
\* snapshots are on disk, the first in a directory that was there before
C7_Witness ==
    /\ pc = "done"
    /\ cli.num_epochs = 2 /\ num_batches > 1
    /\ cli.checkpoint # None
    /\ existing = {ExpectedPath(0)} /\ dirs = {ExpectedPath(1)}
    /\ DOMAIN snapshots = {ExpectedPath(0), ExpectedPath(1)}

\* C8: in every epoch exactly the batches whose index is a multiple of 10 are
\* rendered (the index restarts at 0 each epoch), each right after its engine
\* run, always to 'visualization@train.jpg': at most one visualization file
\* exists and it holds the batch rendered last.
C8_VisualizeEveryTenth ==
    /\ \A i \in Events("run") :
          /\ (i = 1 \/ trace[i - 1].ev = "save") => trace[i].batch_id = 0
          /\ trace[i].batch_id % 10 = 0 =>
                IF i < Len(trace)
                THEN trace[i + 1] = [ev |-> "viz", pass_id |-> trace[i].pass_id,
                                     batch_id |-> trace[i].batch_id]
                ELSE pc = "visualize" /\ batch_id = trace[i].batch_id
    /\ \A i \in Events("viz") :
          /\ i > 1
          /\ trace[i - 1] = [ev |-> "run", pass_id |-> trace[i].pass_id,
                             batch_id |-> trace[i].batch_id]
          /\ trace[i].batch_id % 10 = 0
    /\ DOMAIN files \subseteq {"visualization@train.jpg"}
    /\ (files = <<>>) = (Events("viz") = {})
    /\ Events("viz") # {} =>
          LET last == trace[Max(Events("viz"))]
          IN  files["visualization@train.jpg"].images = <<last.pass_id, last.batch_id>>

\* batch 10 of the second epoch is the one in the file
C8_Witness ==
    /\ files # <<>>
    /\ files["visualization@train.jpg"].images = <<1, 10>>
    /\ Cardinality(Events("viz")) = 4

DatasetImages == IF cli.dataset = "coco" THEN 144406 ELSE 22246
DatasetKpDim == IF cli.dataset = "coco" THEN 17 ELSE 16

\* C10: --total_images, --kp_dim and --pretrained_model never influence a run:
\* kp_dim, the total_images given to optimizer_setting, the decay boundaries
\* and the pretrained path are determined by the other flags (dataset,
\* batch_size) alone, and the pretrained load is always attempted.
C10_FlagsIgnored ==
    /\ pc \notin {"start", "ValueError"} =>
          /\ args.kp_dim = DatasetKpDim
          /\ args.total_images = DatasetImages
    /\ model # None => model[1].kps_num = DatasetKpDim
    /\ params # None => params[1].total_images = DatasetImages
    /\ Piecewise =>
          optimizer[1].boundaries =
              <<((DatasetImages \div cli.batch_size) + 1) * 91,
                ((DatasetImages \div cli.batch_size) + 1) * 121>>
    /\ \A i \in 1 .. Len(loads) :
          loads[i].op = "load_vars" => loads[i].path = "./pretrained/resnet_50/115"
    /\ pc \in {"checkpoint", "reader", "for_pass", "for_batch", "run", "visualize",
               "save", "done", "crashed"} =>
          /\ args.pretrained_model = Some("./pretrained/resnet_50/115")
          /\ \E i \in 1 .. Len(loads) : loads[i].op = "load_vars"

\* a run given none of the three values the code ends up using
C10_Witness ==
    /\ pc = "done"
    /\ cli.total_images # DatasetImages
    /\ cli.kp_dim # DatasetKpDim
    /\ cli.pretrained_model = None
    /\ Piecewise
    /\ \E i \in 1 .. Len(loads) : loads[i].op = "load_vars"

====
